---- MODULE Spec2Model ----
(***************************************************************************)
(* NovelSummary: the /scrape handler of src/index.js and the chunked       *)
(* summarization it runs (chunkText, summarizeLongText).                   *)
(*                                                                         *)
(* Strings are sequences of characters.  Indices into strings and arrays   *)
(* are 0-based in the definitions that model JavaScript code, as in the    *)
(* source; the TLA+ sequences underneath are 1-based.                      *)
(***************************************************************************)
EXTENDS Integers, Sequences, FiniteSets, TLC

\* ------------------------------------------------------------------ bounds
\* Longest string handed to chunkText in ChunkSpec.
MaxLen == 5
\* Largest chunk size handed to chunkText in ChunkSpec.
MaxSize == 5
\* Number of /scrape requests the server handles concurrently.
NumRequests == 2
\* Largest number of <p> elements under #chr-content on a page.
MaxElems == 3
\* The default chunkSize of chunkText (6000 in the source), scaled down so
\* that a page of a few characters spans several chunks.
DefaultChunkSize == 2

\* --------------------------------------------------------------- alphabet
Whitespace == {" ", "\n"}
Chars == {"a", "b", " "}

Min(a, b) == IF a < b THEN a ELSE b

\* All strings over cs of length at most n.
StringsUpTo(cs, n) == UNION {[1..k -> cs] : k \in 0..n}

\* ------------------------------------------------------- string functions
\* Faulty variant of slice: the window loses its last character.
slice_short(s, start, end) == SubSeq(s, start + 1, Min(end, Len(s)) - 1)

\* Faulty variant of slice: the window takes one character too many.
slice_long(s, start, end) == SubSeq(s, start + 1, Min(end + 1, Len(s)))

\* String.prototype.slice(start, end) for 0 <= start <= end: the characters
\* at 0-based positions start .. end-1, end clamped to the length.
slice(s, start, end) == SubSeq(s, start + 1, Min(end, Len(s)))

\* String.prototype.trim(): leading and trailing whitespace removed.
RECURSIVE trimStart(_)
trimStart(t) ==
    IF t # <<>> /\ Head(t) \in Whitespace THEN trimStart(Tail(t)) ELSE t

RECURSIVE trimEnd(_)
trimEnd(t) ==
    IF t # <<>> /\ t[Len(t)] \in Whitespace
    THEN trimEnd(SubSeq(t, 1, Len(t) - 1))
    ELSE t

\* Faulty variant of trim: the text is left as it is.
trim_none(t) == t

trim(t) == trimEnd(trimStart(t))

\* Array.prototype.join(sep) on an array of strings.
RECURSIVE join(_, _)
join(arr, sep) ==
    IF arr = <<>> THEN <<>>
    ELSE IF Len(arr) = 1 THEN arr[1]
    ELSE arr[1] \o sep \o join(Tail(arr), sep)

\* ----------------------------------------------------------------- chunkText
\* Faulty variant of chunkLoop: the loop tests i <= s.length.
RECURSIVE chunkLoop_le(_, _, _, _)
chunkLoop_le(s, chunkSize, i, acc) ==
    IF i <= Len(s)
    THEN chunkLoop_le(s, chunkSize, i + chunkSize,
                      Append(acc, slice(s, i, i + chunkSize)))
    ELSE acc

\* for (let i = 0; i < s.length; i += chunkSize) chunks.push(s.slice(i, i + chunkSize))
RECURSIVE chunkLoop(_, _, _, _)
chunkLoop(s, chunkSize, i, acc) ==
    IF i < Len(s)
    THEN chunkLoop(s, chunkSize, i + chunkSize,
                   Append(acc, slice(s, i, i + chunkSize)))
    ELSE acc

chunkText(s, chunkSize) == chunkLoop(s, chunkSize, 0, <<>>)

\* ------------------------------------------------------------------ state
VARIABLES
    \* one call of chunkText on its own (ChunkSpec)
    text,            \* the argument s
    maxSize,         \* the argument chunkSize
    result,          \* <<>> before the call, <<chunks>> after it returned
    \* the server: one entry per /scrape request
    pc,              \* where the handler of the request stands
    url,             \* req.query.url
    browser,         \* "none" (undefined), "open" or "closed"
    paragraphs,      \* const paragraphs
    chapterLinks,    \* const chapterLinks = { prev, next }
    chunks,          \* summarizeLongText: const chunks
    i,               \* summarizeLongText: the loop variable
    chunkSummaries,  \* summarizeLongText: const chunkSummaries
    calls,           \* the ai.models.generateContent calls issued, in order
    res              \* the res.json(...) bodies sent, in order

chunkVars == <<text, maxSize, result>>
serverVars == <<pc, url, browser, paragraphs, chapterLinks, chunks, i,
                chunkSummaries, calls, res>>
vars == <<text, maxSize, result, pc, url, browser, paragraphs, chapterLinks,
          chunks, i, chunkSummaries, calls, res>>

\* ------------------------------------------------------------- environment
Requests == 1..NumRequests

\* req.query.url: absent (undefined), or a chapter URL.
NoUrl == "undefined"
Urls == {"/book/c1", "/book/c2"}

Null == "null"

\* innerText of the <p> elements under #chr-content.
ElemTexts == {<<"a">>, <<" ", "b", "c", " ">>, <<" ">>}
ElemSeqs == StringsUpTo(ElemTexts, MaxElems)

\* The <a> elements under .btn-group, as (id, href).
LinkSeqs ==
    { <<>>,
      << [id |-> "prev_chap", href |-> "/book/c0"],
         [id |-> "next_chap", href |-> "/book/c2"] >>,
      << [id |-> "next_chap", href |-> "/book/c2"],
         [id |-> "other", href |-> "/book"],
         [id |-> "next_chap", href |-> "/book/c3"] >> }

\* resp.text of a generateContent call that returns a text.
ResponseTexts == {<<"x">>, <<" ", "y", "\n">>}
\* The ways a generateContent call, or the use of its result, throws:
\* the call rejects, or resp.text is undefined and resp.text.trim() is a
\* TypeError.
CallFailures == {"provider error", "Cannot read properties of undefined"}

\* What the outside world may hand to a request: the url asked for, the
\* page found there and the texts the model answers with.
FullEnv ==
    [urls |-> Urls, elems |-> ElemSeqs, links |-> LinkSeqs,
     texts |-> ResponseTexts, failures |-> CallFailures]

\* A smaller choice of pages, for the requests handled concurrently.
ConcEnv ==
    [urls |-> Urls,
     elems |-> { << <<"a">>, <<" ", "b", "c", " ">> >>, << <<" ">>, <<"b">> >> },
     links |-> { << [id |-> "prev_chap", href |-> "/book/c0"],
                    [id |-> "next_chap", href |-> "/book/c2"] >> },
     texts |-> ResponseTexts,
     failures |-> {"provider error"}]

UrlMissing == "URL missing. Use /scrape?url=CHAPTER_URL"

\* ------------------------------------------------------------ page $$eval
\* els.map((e) => e.innerText.trim()).filter((t) => t.length > 0)
RECURSIVE extractParagraphs(_)
extractParagraphs(els) ==
    IF els = <<>> THEN <<>>
    ELSE LET t == trim(Head(els))
         IN  IF Len(t) > 0
             THEN <<t>> \o extractParagraphs(Tail(els))
             ELSE extractParagraphs(Tail(els))

\* links.forEach: the last link with id prev_chap / next_chap wins.
RECURSIVE extractLinksFrom(_, _)
extractLinksFrom(links, acc) ==
    IF links = <<>> THEN acc
    ELSE LET l == Head(links)
             a1 == IF l.id = "prev_chap" THEN [acc EXCEPT !.prev = l.href] ELSE acc
             a2 == IF l.id = "next_chap" THEN [a1 EXCEPT !.next = l.href] ELSE a1
         IN  extractLinksFrom(Tail(links), a2)

extractLinks(links) == extractLinksFrom(links, [prev |-> Null, next |-> Null])

\* ------------------------------------------------------ generateContent calls
\* A call is recorded with what its prompt interpolates: the part number
\* ${i + 1} and the chunk for a chunk prompt, the joined summaries for the
\* final prompt.  outcome is "pending" while the call is awaited.
ChunkCall(idx, chunk) ==
    [kind |-> "chunk", part |-> idx + 1, contents |-> chunk,
     outcome |-> "pending", text |-> <<>>]

FinalCall(summaries) ==
    [kind |-> "final", part |-> 0, contents |-> join(summaries, <<"\n">>),
     outcome |-> "pending", text |-> <<>>]

\* The call the awaited promise belongs to: the last one issued.
Settle(log, outcome, t) ==
    [log EXCEPT ![Len(log)] = [@ EXCEPT !.outcome = outcome, !.text = t]]

\* The head of the for loop of summarizeLongText, with i and chunkSummaries
\* as given: the next chunk call is issued, or the loop ends and the final
\* call is issued.
NextCall(cs, idx, summaries) ==
    IF idx < Len(cs) THEN ChunkCall(idx, cs[idx + 1]) ELSE FinalCall(summaries)

NextPc(cs, idx) == IF idx < Len(cs) THEN "await_chunk" ELSE "await_final"

\* Faulty variant of push: unshift, the new summary goes to the front.
push_front(arr, t) == <<t>> \o arr

\* chunkSummaries.push(t)
push(arr, t) == Append(arr, t)

\* res.json({ success: false, error })
Failure(msg) == [success |-> FALSE, error |-> msg]

\* ------------------------------------------------------------------- Init
ServerInit ==
    /\ pc = [r \in Requests |-> "idle"]
    /\ url = [r \in Requests |-> NoUrl]
    /\ browser = [r \in Requests |-> "none"]
    /\ paragraphs = [r \in Requests |-> <<>>]
    /\ chapterLinks = [r \in Requests |-> [prev |-> Null, next |-> Null]]
    /\ chunks = [r \in Requests |-> <<>>]
    /\ i = [r \in Requests |-> 0]
    /\ chunkSummaries = [r \in Requests |-> <<>>]
    /\ calls = [r \in Requests |-> <<>>]
    /\ res = [r \in Requests |-> <<>>]

\* The server starts with no request received.
Init ==
    /\ text = <<>>
    /\ maxSize = DefaultChunkSize
    /\ result = <<>>
    /\ ServerInit

\* chunkText about to be called on any string and any maxSize > 0.
ChunkInit ==
    /\ text \in StringsUpTo(Chars, MaxLen)
    /\ maxSize \in 1..MaxSize
    /\ result = <<>>
    /\ ServerInit

\* ------------------------------------------------------- chunkText, called
CallChunkText ==
    /\ result = <<>>
    /\ result' = <<chunkText(text, maxSize)>>
    /\ UNCHANGED <<text, maxSize, serverVars>>

\* -------------------------------------------------------- the /scrape handler
\* catch (error): the browser is closed if it was launched, and the failure
\* response is sent.
Catch(r, msg) ==
    /\ browser' = [browser EXCEPT ![r] = IF @ = "none" THEN "none" ELSE "closed"]
    /\ res' = [res EXCEPT ![r] = Append(@, Failure(msg))]
    /\ pc' = [pc EXCEPT ![r] = "done"]

\* Faulty variant of Receive: the test of url is missing.
Receive_nocheck(r, env) ==
    /\ pc[r] = "idle"
    /\ \E u \in env.urls \cup {NoUrl} :
        /\ url' = [url EXCEPT ![r] = u]
        /\ res' = res
        /\ pc' = [pc EXCEPT ![r] = "launch"]
    /\ UNCHANGED <<browser, paragraphs, chapterLinks, chunks, i,
                   chunkSummaries, calls, chunkVars>>

\* A request arrives: url is read, and a missing url is answered at once;
\* otherwise puppeteer.launch is called and awaited.
Receive(r, env) ==
    /\ pc[r] = "idle"
    /\ \E u \in env.urls \cup {NoUrl} :
        /\ url' = [url EXCEPT ![r] = u]
        /\ IF u = NoUrl
           THEN /\ res' = [res EXCEPT ![r] = Append(@, Failure(UrlMissing))]
                /\ pc' = [pc EXCEPT ![r] = "done"]
           ELSE /\ res' = res
                /\ pc' = [pc EXCEPT ![r] = "launch"]
    /\ UNCHANGED <<browser, paragraphs, chapterLinks, chunks, i,
                   chunkSummaries, calls, chunkVars>>

\* puppeteer.launch resolves; newPage, goto, waitForSelector and the two
\* $$eval calls follow.
LaunchOk(r, env) ==
    /\ pc[r] = "launch"
    /\ browser' = [browser EXCEPT ![r] = "open"]
    /\ pc' = [pc EXCEPT ![r] = "page"]
    /\ UNCHANGED <<url, paragraphs, chapterLinks, chunks, i, chunkSummaries,
                   calls, res, chunkVars>>

\* puppeteer.launch (or chromium.executablePath) rejects.
LaunchFails(r, env) ==
    /\ pc[r] = "launch"
    /\ Catch(r, "Failed to launch the browser process")
    /\ UNCHANGED <<url, paragraphs, chapterLinks, chunks, i, chunkSummaries,
                   calls, chunkVars>>

\* The page is loaded and both $$eval calls resolve; browser.close() is
\* called and awaited.
ExtractOk(r, env) ==
    /\ pc[r] = "page"
    /\ \E els \in env.elems, links \in env.links :
        /\ paragraphs' = [paragraphs EXCEPT ![r] = extractParagraphs(els)]
        /\ chapterLinks' = [chapterLinks EXCEPT ![r] = extractLinks(links)]
    /\ pc' = [pc EXCEPT ![r] = "closing"]
    /\ UNCHANGED <<url, browser, chunks, i, chunkSummaries, calls, res,
                   chunkVars>>

\* newPage, goto, waitForSelector or a $$eval rejects.
ExtractFails(r, env) ==
    /\ pc[r] = "page"
    /\ Catch(r, "Waiting for selector failed")
    /\ UNCHANGED <<url, paragraphs, chapterLinks, chunks, i, chunkSummaries,
                   calls, chunkVars>>

\* browser.close() rejects.
CloseFails(r, env) ==
    /\ pc[r] = "closing"
    /\ Catch(r, "Protocol error: Target closed")
    /\ UNCHANGED <<url, paragraphs, chapterLinks, chunks, i, chunkSummaries,
                   calls, chunkVars>>

\* Faulty variant of CloseOk: the calls for all chunks are issued at once.
CloseOk_all(r, env) ==
    /\ pc[r] = "closing"
    /\ browser' = [browser EXCEPT ![r] = "closed"]
    /\ LET cs == chunkText(join(paragraphs[r], <<"\n">>), DefaultChunkSize)
       IN  /\ chunks' = [chunks EXCEPT ![r] = cs]
           /\ i' = [i EXCEPT ![r] = 0]
           /\ chunkSummaries' = [chunkSummaries EXCEPT ![r] = <<>>]
           /\ calls' = [calls EXCEPT ![r] =
                          IF cs = <<>> THEN <<FinalCall(<<>>)>>
                          ELSE [k \in 1..Len(cs) |-> ChunkCall(k - 1, cs[k])]]
           /\ pc' = [pc EXCEPT ![r] = NextPc(cs, 0)]
    /\ UNCHANGED <<url, paragraphs, chapterLinks, res, chunkVars>>

\* browser.close() resolves and summarizeLongText(paragraphs.join('\n')) runs
\* to its first await: the text is chunked and the first call is issued.
CloseOk(r, env) ==
    /\ pc[r] = "closing"
    /\ browser' = [browser EXCEPT ![r] = "closed"]
    /\ LET cs == chunkText(join(paragraphs[r], <<"\n">>), DefaultChunkSize)
       IN  /\ chunks' = [chunks EXCEPT ![r] = cs]
           /\ i' = [i EXCEPT ![r] = 0]
           /\ chunkSummaries' = [chunkSummaries EXCEPT ![r] = <<>>]
           /\ calls' = [calls EXCEPT ![r] = Append(@, NextCall(cs, 0, <<>>))]
           /\ pc' = [pc EXCEPT ![r] = NextPc(cs, 0)]
    /\ UNCHANGED <<url, paragraphs, chapterLinks, res, chunkVars>>

\* res.json({ success: true, count, summary, prevChapter, nextChapter, currentUrl })
Success(r, summary) ==
    [success |-> TRUE,
     count |-> Len(paragraphs[r]),
     summary |-> summary,
     prevChapter |-> chapterLinks[r].prev,
     nextChapter |-> chapterLinks[r].next,
     currentUrl |-> url[r]]

\* Faulty variant of ChunkReturn: chunkSummaries is one array shared by all
\* requests.
ChunkReturn_shared(r, env) ==
    /\ pc[r] = "await_chunk"
    /\ \E t \in env.texts :
        LET all == [q \in Requests |-> push(chunkSummaries[q], trim(t))]
            idx == i[r] + 1
        IN  /\ chunkSummaries' = all
            /\ i' = [i EXCEPT ![r] = idx]
            /\ calls' = [calls EXCEPT ![r] =
                           Append(Settle(@, "ok", t), NextCall(chunks[r], idx, all[r]))]
            /\ pc' = [pc EXCEPT ![r] = NextPc(chunks[r], idx)]
    /\ UNCHANGED <<url, browser, paragraphs, chapterLinks, chunks, res, chunkVars>>

\* The awaited chunk call resolves with a text: its trimmed text is pushed,
\* i++ and the loop head runs again.
ChunkReturn(r, env) ==
    /\ pc[r] = "await_chunk"
    /\ \E t \in env.texts :
        LET summaries == push(chunkSummaries[r], trim(t))
            idx == i[r] + 1
        IN  /\ chunkSummaries' = [chunkSummaries EXCEPT ![r] = summaries]
            /\ i' = [i EXCEPT ![r] = idx]
            /\ calls' = [calls EXCEPT ![r] =
                           Append(Settle(@, "ok", t), NextCall(chunks[r], idx, summaries))]
            /\ pc' = [pc EXCEPT ![r] = NextPc(chunks[r], idx)]
    /\ UNCHANGED <<url, browser, paragraphs, chapterLinks, chunks, res, chunkVars>>

\* Faulty variant of ChunkFails: the error is swallowed inside the loop,
\* which goes on with the next chunk.
ChunkFails_skip(r, env) ==
    /\ pc[r] = "await_chunk"
    /\ \E e \in env.failures :
        LET idx == i[r] + 1
        IN  /\ i' = [i EXCEPT ![r] = idx]
            /\ calls' = [calls EXCEPT ![r] =
                           Append(Settle(@, "failed", <<>>),
                                  NextCall(chunks[r], idx, chunkSummaries[r]))]
            /\ pc' = [pc EXCEPT ![r] = NextPc(chunks[r], idx)]
    /\ UNCHANGED <<url, browser, paragraphs, chapterLinks, chunks,
                   chunkSummaries, res, chunkVars>>

\* The awaited chunk call rejects, or resp.text is undefined: the error
\* leaves summarizeLongText and reaches the handler's catch.
ChunkFails(r, env) ==
    /\ pc[r] = "await_chunk"
    /\ \E e \in env.failures :
        /\ calls' = [calls EXCEPT ![r] = Settle(@, "failed", <<>>)]
        /\ Catch(r, e)
    /\ UNCHANGED <<url, paragraphs, chapterLinks, chunks, i, chunkSummaries,
                   chunkVars>>

\* The awaited final call resolves with a text: summarizeLongText returns
\* its trimmed text and the handler sends the success response.
FinalReturn(r, env) ==
    /\ pc[r] = "await_final"
    /\ \E t \in env.texts :
        /\ calls' = [calls EXCEPT ![r] = Settle(@, "ok", t)]
        /\ res' = [res EXCEPT ![r] = Append(@, Success(r, trim(t)))]
    /\ pc' = [pc EXCEPT ![r] = "done"]
    /\ UNCHANGED <<url, browser, paragraphs, chapterLinks, chunks, i,
                   chunkSummaries, chunkVars>>

\* The awaited final call rejects, or finalResp.text is undefined.
FinalFails(r, env) ==
    /\ pc[r] = "await_final"
    /\ \E e \in env.failures :
        /\ calls' = [calls EXCEPT ![r] = Settle(@, "failed", <<>>)]
        /\ Catch(r, e)
    /\ UNCHANGED <<url, paragraphs, chapterLinks, chunks, i, chunkSummaries,
                   chunkVars>>

\* ---------------------------------------------------------- specifications
\* One step of the handler of request r, in the environment env.
Handler(r, env) ==
    \/ Receive(r, env)
    \/ LaunchOk(r, env)
    \/ LaunchFails(r, env)
    \/ ExtractOk(r, env)
    \/ ExtractFails(r, env)
    \/ CloseOk(r, env)
    \/ CloseFails(r, env)
    \/ ChunkReturn(r, env)
    \/ ChunkFails(r, env)
    \/ FinalReturn(r, env)
    \/ FinalFails(r, env)

Next == Handler(1, FullEnv)

\* The server handling one /scrape request, of any page and any responses.
Spec == Init /\ [][Next]_vars

ConcNext == \E r \in Requests : Handler(r, ConcEnv)

\* The server handling NumRequests /scrape requests concurrently, their
\* steps interleaved in any order.
ConcSpec == Init /\ [][ConcNext]_vars

ChunkNext == CallChunkText

\* chunkText called once on an arbitrary string with an arbitrary maxSize > 0.
ChunkSpec == ChunkInit /\ [][ChunkNext]_vars

\* ------------------------------------------------ vocabulary of the claims
\* ceil(a / b) for b > 0.
CeilDiv(a, b) == (a + b - 1) \div b

\* raw without its leading and trailing whitespace, said by positions: the
\* stretch from the first to the last character that is not whitespace.
Stripped(raw) ==
    LET solid == {p \in 1..Len(raw) : raw[p] \notin Whitespace}
    IN  IF solid = {} THEN <<>>
        ELSE SubSeq(raw,
                    CHOOSE p \in solid : \A q \in solid : p <= q,
                    CHOOSE p \in solid : \A q \in solid : q <= p)

\* The strings of arr concatenated, in order.
RECURSIVE Concat(_)
Concat(arr) == IF arr = <<>> THEN <<>> ELSE Head(arr) \o Concat(Tail(arr))

\* chunkText has returned.
Returned == result # <<>>
Chunks == result[1]

\* The calls of request r up to and excluding position k.
Before(r, k) == SubSeq(calls[r], 1, k - 1)

\* The stripped texts the calls of log returned, in the order of the calls.
StrippedTexts(log) == [j \in 1..Len(log) |-> Stripped(log[j].text)]

\* The calls of log are the chunk calls for the first Len(log) chunks of
\* cs, one each, in index order.
ChunkCallsInOrder(log, cs) ==
    /\ Len(log) <= Len(cs)
    /\ \A j \in 1..Len(log) :
        /\ log[j].kind = "chunk"
        /\ log[j].part = j
        /\ log[j].contents = cs[j]

\* ------------------------------------------------------------------ claims
\* C1: concatenating the chunks chunkText(s, maxSize) returns, in index
\* order, yields exactly s.
ChunkLossless == Returned => Concat(Chunks) = text

C1_Witness ==
    /\ Returned
    /\ Len(Chunks) >= 3
    /\ Len(text) % maxSize # 0

\* C2: chunkText(s, maxSize) returns exactly ceil(L / maxSize) chunks for a
\* string of length L, so no chunk at all for the empty string.
ChunkCount ==
    Returned =>
        /\ Len(Chunks) = CeilDiv(Len(text), maxSize)
        /\ (text = <<>> => Chunks = <<>>)

C2_Witness ==
    /\ Returned
    /\ maxSize > 1
    /\ Len(text) = 2 * maxSize
    /\ Len(Chunks) = 2

\* C3: of the chunks of a non-empty string every one but the last has
\* length maxSize, the last has length L mod maxSize, or maxSize when that
\* is zero; no chunk is empty and none is longer than maxSize.
ChunkSizes ==
    (Returned /\ text # <<>>) =>
        LET n == Len(Chunks)
            L == Len(text)
        IN  /\ n >= 1
            /\ \A k \in 1..(n - 1) : Len(Chunks[k]) = maxSize
            /\ Len(Chunks[n]) = (IF L % maxSize # 0 THEN L % maxSize ELSE maxSize)
            /\ \A k \in 1..n : Len(Chunks[k]) >= 1 /\ Len(Chunks[k]) <= maxSize

C3_Witness ==
    /\ Returned
    /\ Len(Chunks) = 2
    /\ Len(Chunks[2]) < maxSize

\* C4: whenever the synthesis call is issued, its prompt holds the trimmed
\* responses of the chunk calls joined in ascending order of chunk index:
\* the i-th of them is the response to the call made for chunk i.
OrderPreserved ==
    \A r \in Requests : \A k \in 1..Len(calls[r]) :
        calls[r][k].kind = "final" =>
            /\ ChunkCallsInOrder(Before(r, k), chunks[r])
            /\ k = Len(chunks[r]) + 1
            /\ calls[r][k].contents = join(StrippedTexts(Before(r, k)), <<"\n">>)

C4_Witness ==
    /\ Len(calls[1]) = 4
    /\ calls[1][4].kind = "final"
    /\ calls[1][1].text # calls[1][2].text
    /\ calls[1][2].text = calls[1][3].text

\* C5: once the call for chunk k has failed no call for a later chunk and no
\* synthesis call is issued, and the handler answers success:false with an
\* error message and without a summary.
FailFast ==
    \A r \in Requests : \A k \in 1..Len(calls[r]) :
        (calls[r][k].kind = "chunk" /\ calls[r][k].outcome = "failed") =>
            /\ k = Len(calls[r])
            /\ ChunkCallsInOrder(calls[r], chunks[r])
            /\ pc[r] = "done"
            /\ Len(res[r]) = 1
            /\ res[r][1].success = FALSE
            /\ DOMAIN res[r][1] = {"success", "error"}
            /\ res[r][1].error \in CallFailures

C5_Witness ==
    /\ Len(chunks[1]) = 3
    /\ Len(calls[1]) = 2
    /\ calls[1][1].outcome = "ok"
    /\ calls[1][2].outcome = "failed"
    /\ pc[1] = "done"

\* C6: for an empty extracted text no call is made at all, the synthesis call
\* with zero partial summaries included, and the request fails.
EmptyInputRejected ==
    \A r \in Requests :
        (pc[r] \in {"await_chunk", "await_final", "done"} /\ paragraphs[r] = <<>>) =>
            /\ calls[r] = <<>>
            /\ \A k \in 1..Len(res[r]) : res[r][k].success = FALSE

\* C7: a request without url is answered at once with success:false and an
\* error message; no browser is launched, no page fetched, no call issued.
MissingUrl ==
    \A r \in Requests :
        (pc[r] # "idle" /\ url[r] = NoUrl) =>
            /\ pc[r] = "done"
            /\ res[r] = <<Failure(UrlMissing)>>
            /\ browser[r] = "none"
            /\ paragraphs[r] = <<>>
            /\ calls[r] = <<>>

C7_Witness == pc[1] = "done" /\ url[1] = NoUrl /\ Len(res[1]) = 1

\* C8: the calls of a request are issued one at a time: chunk calls in
\* strict index order, each only after the one before has completed, the
\* synthesis call only after the last chunk call has completed; at most one
\* call of the request is in flight.
Sequential ==
    \A r \in Requests :
        LET log == calls[r]
            n == Len(log)
        IN  /\ \A k \in 1..(n - 1) : log[k].outcome = "ok"
            /\ Cardinality({k \in 1..n : log[k].outcome = "pending"}) <= 1
            /\ \A k \in 1..n :
                IF log[k].kind = "chunk"
                THEN log[k].part = k /\ k <= Len(chunks[r])
                ELSE k = Len(chunks[r]) + 1

C8_Witness ==
    /\ Len(calls[1]) = 3
    /\ calls[1][3].kind = "chunk"
    /\ calls[1][3].outcome = "pending"

\* C9: a run in which no call fails, on a text of n >= 1 chunks, makes
\* exactly one call per chunk, with ordinals 1..n and that chunk as its
\* text, then exactly one synthesis call, and returns the response of the
\* synthesis call with the surrounding whitespace removed.
CallCountAndResult ==
    \A r \in Requests :
        LET log == calls[r]
            n == Len(chunks[r])
        IN  (/\ pc[r] = "done"
             /\ n >= 1
             /\ log # <<>>
             /\ \A k \in 1..Len(log) : log[k].outcome = "ok") =>
                /\ Len(log) = n + 1
                /\ ChunkCallsInOrder(SubSeq(log, 1, n), chunks[r])
                /\ log[n + 1].kind = "final"
                /\ Len(res[r]) = 1
                /\ res[r][1].success = TRUE
                /\ res[r][1].summary = Stripped(log[n + 1].text)

C9_Witness ==
    /\ pc[1] = "done"
    /\ Len(chunks[1]) = 3
    /\ chunks[1][1] = chunks[1][2]
    /\ Len(calls[1]) = 4
    /\ calls[1][4].outcome = "ok"
    /\ calls[1][4].text # Stripped(calls[1][4].text)

\* C10: with requests handled concurrently, every request's synthesis
\* prompt holds the partial summaries of its own chunks only, in its own
\* chunk order, and its response carries its own summary, paragraph count,
\* chapter links and url.
Isolation ==
    \A r \in Requests :
        /\ \A k \in 1..Len(calls[r]) :
            IF calls[r][k].kind = "chunk"
            THEN calls[r][k].contents = chunks[r][k]
            ELSE calls[r][k].contents = join(StrippedTexts(Before(r, k)), <<"\n">>)
        /\ (Len(chunks[r]) >= 1 =>
                Concat(chunks[r]) = join(paragraphs[r], <<"\n">>))
        /\ \A k \in 1..Len(res[r]) :
            res[r][k].success =>
                /\ res[r][k].summary = Stripped(calls[r][Len(calls[r])].text)
                /\ res[r][k].count = Len(paragraphs[r])
                /\ res[r][k].prevChapter = chapterLinks[r].prev
                /\ res[r][k].nextChapter = chapterLinks[r].next
                /\ res[r][k].currentUrl = url[r]

C10_Witness ==
    /\ pc[1] = "done"
    /\ pc[2] = "done"
    /\ Len(res[1]) = 1
    /\ Len(res[2]) = 1
    /\ res[1][1].success
    /\ res[2][1].success
    /\ res[1][1].count # res[2][1].count
    /\ res[1][1].summary # res[2][1].summary
    /\ res[1][1].currentUrl # res[2][1].currentUrl

====
